---- MODULE Spec2Model ----
(***************************************************************************)
(* image-duplicate: the perceptual hash database (src/src/hashdb.rs).      *)
(*                                                                         *)
(* A path is a sequence of components, a component is a sequence of        *)
(* one-character strings, so that Path::extension is computed from the     *)
(* characters of the file name and not assumed.  The file system is a map  *)
(* from the physical (canonical) location of every node of a small         *)
(* universe to what is found there.  The directory handed to read_dir is   *)
(* the relative path ".", whose canonical form is "/r".                    *)
(***************************************************************************)
EXTENDS Integers, Sequences, FiniteSets, TLC

\* ------------------------------------------------------------------ names
Dot == <<".">>
R == <<"r">>
N_a == <<"a", ".", "p", "n", "g">>
N_d == <<"d", ".", "p", "n", "g">>
N_c == <<"c", ".", "j", "p", "g">>
N_l == <<"l", ".", "p", "n", "g">>
N_B == <<"B", ".", "P", "N", "G">>
N_t == <<"t", ".", "t", "x", "t">>
N_h == <<".", "p", "n", "g">>
N_n == <<"n">>

\* The directory given to read_dir / read_dir_recursive, and its canonical form.
RootArg == <<Dot>>
RootCanon == <<R>>

\* Physical locations of the nodes of the universe (canonical paths).
P_a == <<R, N_a>>
P_d == <<R, N_d>>
P_c == <<R, N_d, N_c>>
P_l == <<R, N_l>>
P_B == <<R, N_B>>
P_t == <<R, N_t>>
P_h == <<R, N_h>>
P_n == <<R, N_n>>
Nodes == {P_a, P_d, P_c, P_l, P_B, P_t, P_h, P_n}

\* What a node can be.  "imgA", "imgB": a regular file holding that picture;
\* "corrupt": a regular file image::open cannot decode; "dir": a directory;
\* "link": a symbolic link to LinkTarget; "err": an entry whose listing yields
\* an io error (permission denied, vanished while listing).  The hidden file
\* ".png" and the file "n" without extension are always there.
ImageKinds == {"imgA", "imgB"}
FileKinds == ImageKinds \cup {"corrupt"}
AllowedKinds(p) ==
    CASE p = P_a -> {"absent", "imgA", "imgB", "corrupt", "err"}
      [] p = P_d -> {"absent", "dir", "imgA"}
      [] p = P_c -> {"absent", "imgB", "err"}
      [] p = P_l -> {"absent", "link"}
      [] p = P_B -> {"absent", "imgA"}
      [] p = P_t -> {"absent", "imgA"}
      [] p = P_h -> {"imgB"}
      [] OTHER   -> {"imgA"}
LinkTarget(p) == P_B
RootKinds == {"dir", "err"}

\* --------------------------------------------------------- Path Classifier
SUFFIXES ==
    { <<"b", "m", "p">>, <<"g", "i", "f">>, <<"j", "p", "g">>,
      <<"j", "p", "e", "g">>, <<"j", "x", "l">>, <<"p", "n", "g">>,
      <<"w", "e", "b", "p">> }

\* Path::file_name: the last component.
FileName(path) == path[Len(path)]

\* Index of the last "." of a file name, 0 when there is none.
LastDot(name) ==
    LET dots == {i \in 1..Len(name) : name[i] = "."}
    IN  IF dots = {} THEN 0 ELSE CHOOSE i \in dots : \A j \in dots : j <= i

\* Path::extension as an Option, here a set with at most one element: none
\* when the name has no "." or its only "." is the first character, otherwise
\* what follows the last ".".
Extension(path) ==
    LET name == FileName(path)
        k == LastDot(name)
    IN  IF k = 0 \/ k = 1 \/ name = <<".", ".">>
        THEN {}
        ELSE {SubSeq(name, k + 1, Len(name))}

\* Faulty variant: the extension compared without regard to case.
has_image_suffix_any_case(file) ==
    \E x \in Extension(file) :
        \E s \in SUFFIXES :
            /\ Len(s) = Len(x)
            /\ \A i \in 1..Len(s) :
                   \/ x[i] = s[i]
                   \/ <<x[i], s[i]>> \in { <<"P", "p">>, <<"N", "n">>, <<"G", "g">>,
                                          <<"J", "j">>, <<"B", "b">>, <<"M", "m">> }

has_image_suffix(file) == \E x \in Extension(file) : x \in SUFFIXES

\* ------------------------------------------------------------ file system
VARIABLES
    fs,          \* [Nodes -> kind]: what is found at each physical location
    root,        \* the scanned directory itself: "dir", or "err" (unreadable)
    store,       \* HashDB.0: canonical path string -> fingerprint
    pc,          \* "idle", or "hashing" inside read_dir / read_dir_recursive
    mode,        \* the sync in progress or last run: "flat" or "rec"
    db_images,   \* local of the sync: key set of the store at its start
    fs_images,   \* local of the sync: the scan output
    pending,     \* paths of fs_images \ db_images not yet taken by a worker
    running,     \* paths a worker is hashing now
    results,     \* path -> result of hash_image, for the paths already hashed
    lastResult,  \* how the last sync call returned: "none", "ok", "io", "image"
    fsChanged,   \* the file system was changed since the last sync call returned
    idem,        \* this sync follows a successful one of the same mode, no change between
    threshold,   \* argument of the last find_duplicates call
    duplicates,  \* the Vec<(String, String)> it returned
    dupOutcome,  \* "none", "returned", or "panic"
    dbFile,      \* the database file: whether it exists, and its content
    fileState,   \* "none", "written" (by to_file), "damaged"
    loaded,      \* result of the last from_file call
    args,        \* run: the parsed command line (Args)
    rpc,         \* run: position in the pipeline, or how it ended
    trace,       \* run: the calls made so far and how each returned
    file0,       \* run: the database file as it was when run was entered
    idx,         \* GUI.idx
    onDisk,      \* review: the paths fs::exists finds
    shown,       \* review: the pairs displayed so far, in order
    presses,     \* review: the buttons handled so far and what each trashed
    gpc,         \* review: "none", "built", "waiting", "done", "failed"
    gerr         \* review: the error GUI::run returned

syncVars == <<fs, root, pc, mode, db_images, fs_images, pending, running,
              results, lastResult, fsChanged, idem>>
dupVars == <<threshold, duplicates, dupOutcome>>
codecVars == <<dbFile, fileState, loaded>>
runVars == <<args, rpc, trace, file0>>
guiVars == <<idx, onDisk, shown, presses, gpc, gerr>>
vars == <<store, syncVars, dupVars, codecVars, runVars, guiVars>>

\* run has not been entered.
NoArgs == [recursive |-> FALSE, rebuild |-> FALSE, no_dump |-> FALSE,
           no_update |-> FALSE, threshold |-> 0]
RunIdle ==
    /\ args = NoArgs
    /\ rpc = "none"
    /\ trace = <<>>
    /\ file0 = [exists |-> FALSE, data |-> <<>>]

\* No GUI has been built.
GuiIdle ==
    /\ idx = 0
    /\ onDisk = {}
    /\ shown = <<>>
    /\ presses = <<>>
    /\ gpc = "none"
    /\ gerr = "none"

\* Number of bytes of a fingerprint (the hasher's default is 8; scaled down).
HashLen == 1

\* Hasher::hash_image on the decoded, resized and blurred picture: a function of
\* the picture alone.
PictureHash(kind) ==
    [i \in 1..HashLen |-> IF kind = "imgA" THEN 1 ELSE IF i = 1 THEN 3 ELSE 1]

Parent(p) == SubSeq(p, 1, Len(p) - 1)

\* The node exists and the directories above it do.
Visible(f, p) ==
    /\ p \in Nodes
    /\ f[p] # "absent"
    /\ (Parent(p) = RootCanon \/ f[Parent(p)] = "dir")

\* The path of a node as the listing of RootArg reports it (DirEntry::path).
EntryPath(p) == RootArg \o Tail(p)

\* Where a given path leads before links are followed: relative segments resolved.
Physical(path) == IF Head(path) = Dot THEN RootCanon \o Tail(path) ELSE path

\* Path::canonicalize as a Result, here a set with at most one element: the
\* absolute, link-free location, or nothing when the path cannot be resolved.
Canonicalize(f, path) ==
    LET p == Physical(path)
    IN  IF ~Visible(f, p) \/ f[p] = "err"
        THEN {}
        ELSE IF f[p] = "link"
        THEN IF Visible(f, LinkTarget(p)) /\ f[LinkTarget(p)] \notin {"err", "link"}
             THEN {LinkTarget(p)}
             ELSE {}
        ELSE {p}

\* Path::is_file: follows links; false when the metadata cannot be read.
is_file(f, path) == \E q \in Canonicalize(f, path) : f[q] \in FileKinds

\* Path::to_string_lossy().into_owned(): components joined by "/"; every name
\* of the universe is valid UTF-8, so no character is replaced.
RECURSIVE JoinComponents(_)
JoinComponents(path) ==
    IF Len(path) = 0 THEN <<>>
    ELSE IF Len(path) = 1 THEN Head(path)
    ELSE Head(path) \o <<"/">> \o JoinComponents(Tail(path))

to_string_lossy(path) ==
    IF Head(path) = Dot THEN JoinComponents(path) ELSE <<"/">> \o JoinComponents(path)

\* AsRef<Path> for String: the components between the "/" separators.
RECURSIVE SplitComponents(_, _)
SplitComponents(str, cur) ==
    IF Len(str) = 0 THEN (IF cur = <<>> THEN <<>> ELSE <<cur>>)
    ELSE IF Head(str) = "/"
         THEN (IF cur = <<>> THEN <<>> ELSE <<cur>>) \o SplitComponents(Tail(str), <<>>)
         ELSE SplitComponents(Tail(str), Append(cur, Head(str)))

as_path(str) == SplitComponents(str, <<>>)

\* ------------------------------------------------------- Directory Scanner
\* Items of fs::read_dir(root) that are Ok (filter_map(|x| x.ok())): the
\* immediate entries, those whose listing failed left out.
read_dir_entries(f) ==
    {EntryPath(p) : p \in {q \in Nodes : Parent(q) = RootCanon /\ Visible(f, q) /\ f[q] # "err"}}

\* Items of WalkDir::new(root) that are Ok: the root, then the whole subtree
\* (links are not followed into), errors left out.
walkdir_entries(f, rk) ==
    IF rk = "err" THEN {}
    ELSE {RootArg} \cup {EntryPath(p) : p \in {q \in Nodes : Visible(f, q) /\ f[q] # "err"}}

\* Faulty variant: the entry paths kept as listed, not canonicalized.
scan_flat_no_canonicalize(f) ==
    {to_string_lossy(p) :
        p \in {e \in read_dir_entries(f) : has_image_suffix(e) /\ Canonicalize(f, e) # {}}}

\* fs_images of read_dir.
scan_flat(f) ==
    {to_string_lossy(c) :
        c \in UNION {Canonicalize(f, e) : e \in {x \in read_dir_entries(f) : has_image_suffix(x)}}}

\* Faulty variant: the first listing error ends the walk with nothing scanned.
scan_rec_abort_on_error(f, rk) ==
    IF rk = "err" \/ (\E q \in Nodes : Visible(f, q) /\ f[q] = "err")
    THEN {}
    ELSE {to_string_lossy(c) :
             c \in UNION {Canonicalize(f, e) :
                             e \in {x \in walkdir_entries(f, rk) :
                                        has_image_suffix(x) /\ is_file(f, x)}}}

\* fs_images of read_dir_recursive.
scan_rec(f, rk) ==
    {to_string_lossy(c) :
        c \in UNION {Canonicalize(f, e) :
                        e \in {x \in walkdir_entries(f, rk) : has_image_suffix(x) /\ is_file(f, x)}}}

\* ------------------------------------------------------ Fingerprint Engine
\* hash_image: image::open follows links and fails on what is missing, not a
\* regular file or not decodable; the name is the canonical path of the file.
hash_image(f, file) ==
    LET c == Canonicalize(f, as_path(file))
    IN  IF c = {} \/ (\A q \in c : f[q] \notin ImageKinds)
        THEN [ok |-> FALSE, err |-> "image"]
        ELSE LET q == CHOOSE x \in c : TRUE
             IN  [ok |-> TRUE, name |-> to_string_lossy(q), hash |-> PictureHash(f[q])]

\* ------------------------------------------------- Hash Store: read_dir
NoResults == [x \in {} |-> TRUE]

\* No database file on disk; no from_file call made yet.
NoFile == [exists |-> FALSE, data |-> <<>>]
NotLoaded == [ok |-> FALSE, err |-> "none", db |-> NoResults]

\* collect::<Result<Vec<_>, _>>(): an error if any hash_image failed.
AnyFailed(res) == \E p \in DOMAIN res : ~res[p].ok

\* for (name, hash) in hashes { self.0.insert(name, hash) }
InsertAll(st, res) ==
    LET names == {res[p].name : p \in DOMAIN res}
    IN  [k \in (DOMAIN st) \cup names |->
            IF k \in names
            THEN res[CHOOSE p \in DOMAIN res : res[p].name = k].hash
            ELSE st[k]]

\* for file in db_images.difference(&fs_images) { self.0.remove(file) }
RemoveStale(st, db, fsi) == [k \in (DOMAIN st) \ (db \ fsi) |-> st[k]]

\* Faulty variant: the successful results inserted and the stale keys removed
\* even when a hash_image failed.
StoreAfterCollect_KeepPartial(st, res, db, fsi) ==
    LET good == [p \in {q \in DOMAIN res : res[q].ok} |-> res[p]]
    IN  RemoveStale(InsertAll(st, good), db, fsi)

\* The store when the sync call returns: untouched when the collected result
\* is an error (the ? returns first), otherwise inserts, then removals.
StoreAfterCollect(st, res, db, fsi) ==
    IF AnyFailed(res) THEN st ELSE RemoveStale(InsertAll(st, res), db, fsi)

Init ==
    /\ fs = [p \in Nodes |-> IF "absent" \in AllowedKinds(p)
                              THEN "absent"
                              ELSE CHOOSE k \in AllowedKinds(p) : TRUE]
    /\ root = "dir"
    /\ store = NoResults
    /\ pc = "idle"
    /\ mode = "flat"
    /\ db_images = {}
    /\ fs_images = {}
    /\ pending = {}
    /\ running = {}
    /\ results = NoResults
    /\ lastResult = "none"
    /\ fsChanged = FALSE
    /\ idem = FALSE
    /\ threshold = 0
    /\ duplicates = <<>>
    /\ dupOutcome = "none"
    /\ dbFile = NoFile
    /\ fileState = "none"
    /\ loaded = NotLoaded
    /\ RunIdle
    /\ GuiIdle

syncLocals == <<db_images, fs_images, pending, running, results>>

\* The environment creates, replaces or deletes a node between two calls.
\* Replacing a directory by something else deletes what was below it.
FsChange(p, k) ==
    /\ pc = "idle"
    /\ k \in AllowedKinds(p) \ {fs[p]}
    /\ (Parent(p) # RootCanon => fs[Parent(p)] = "dir")
    /\ fs' = [q \in Nodes |->
                IF q = p THEN k
                ELSE IF Parent(q) = p /\ k # "dir" THEN "absent"
                ELSE fs[q]]
    /\ fsChanged' = TRUE
    /\ UNCHANGED <<root, store, pc, mode, syncLocals, lastResult, idem, dupVars, codecVars, runVars, guiVars>>

\* The environment makes the scanned directory unreadable, or readable again.
RootChange(k) ==
    /\ pc = "idle"
    /\ k \in RootKinds \ {root}
    /\ root' = k
    /\ fsChanged' = TRUE
    /\ UNCHANGED <<fs, store, pc, mode, syncLocals, lastResult, idem, dupVars, codecVars, runVars, guiVars>>

\* read_dir: fs::read_dir(&root)? fails on an unreadable root.
ReadDirFails ==
    /\ pc = "idle"
    /\ root = "err"
    /\ mode' = "flat"
    /\ lastResult' = "io"
    /\ idem' = (lastResult = "ok" /\ mode = "flat" /\ ~fsChanged)
    /\ fsChanged' = FALSE
    /\ UNCHANGED <<fs, root, store, pc, syncLocals, dupVars, codecVars, runVars, guiVars>>

\* Faulty variant: every scanned path is fingerprinted again, known or not.
to_add_rehash_all(fsi, db) == fsi

\* fs_images.difference(&db_images): the paths handed to the parallel phase.
to_add(fsi, db) == fsi \ db

\* read_dir (m = "flat") and read_dir_recursive (m = "rec") up to the dispatch
\* of the parallel phase: db_images, fs_images, and the difference to hash.
SyncBegin(m) ==
    /\ pc = "idle"
    /\ m = "flat" => root = "dir"
    /\ mode' = m
    /\ db_images' = DOMAIN store
    /\ fs_images' = IF m = "flat" THEN scan_flat(fs) ELSE scan_rec(fs, root)
    /\ pending' = to_add(fs_images', db_images')
    /\ running' = {}
    /\ results' = NoResults
    /\ pc' = "hashing"
    /\ idem' = (lastResult = "ok" /\ mode = m /\ ~fsChanged)
    /\ fsChanged' = FALSE
    /\ UNCHANGED <<fs, root, store, lastResult, dupVars, codecVars, runVars, guiVars>>

\* par_bridge(): a worker of the pool takes the next path.
WorkerStart(p) ==
    /\ pc = "hashing"
    /\ p \in pending
    /\ pending' = pending \ {p}
    /\ running' = running \cup {p}
    /\ UNCHANGED <<fs, root, store, pc, mode, db_images, fs_images, results,
                   lastResult, fsChanged, idem, dupVars, codecVars, runVars, guiVars>>

\* Faulty variant: the worker inserts its own result into the store.
WorkerDone_InsertsDirectly(p) ==
    /\ pc = "hashing"
    /\ p \in running
    /\ running' = running \ {p}
    /\ results' = [q \in (DOMAIN results) \cup {p} |->
                      IF q = p THEN hash_image(fs, p) ELSE results[q]]
    /\ store' = IF hash_image(fs, p).ok
                THEN InsertAll(store, [q \in {p} |-> hash_image(fs, p)])
                ELSE store
    /\ UNCHANGED <<fs, root, pc, mode, db_images, fs_images, pending,
                   lastResult, fsChanged, idem, dupVars, codecVars, runVars, guiVars>>

\* .map(|img| hash_image(img)): the worker returns its result.
WorkerDone(p) ==
    /\ pc = "hashing"
    /\ p \in running
    /\ running' = running \ {p}
    /\ results' = [q \in (DOMAIN results) \cup {p} |->
                      IF q = p THEN hash_image(fs, p) ELSE results[q]]
    /\ UNCHANGED <<fs, root, store, pc, mode, db_images, fs_images, pending,
                   lastResult, fsChanged, idem, dupVars, codecVars, runVars, guiVars>>

\* .collect::<Result<Vec<_>, _>>()? and the two loops after it.  The collect
\* waits for the workers; once one has failed the paths not yet taken are
\* dropped.
SyncFinish ==
    /\ pc = "hashing"
    /\ running = {}
    /\ (pending = {} \/ AnyFailed(results))
    /\ store' = StoreAfterCollect(store, results, db_images, fs_images)
    /\ lastResult' = IF AnyFailed(results) THEN "image" ELSE "ok"
    /\ pc' = "idle"
    /\ db_images' = {}
    /\ fs_images' = {}
    /\ pending' = {}
    /\ results' = NoResults
    /\ UNCHANGED <<fs, root, mode, running, fsChanged, idem, dupVars, codecVars, runVars, guiVars>>

Next ==
    \/ \E p \in Nodes : \E k \in AllowedKinds(p) : FsChange(p, k)
    \/ \E k \in RootKinds : RootChange(k)
    \/ ReadDirFails
    \/ \E m \in {"flat", "rec"} : SyncBegin(m)
    \/ \E p \in pending : WorkerStart(p)
    \/ \E p \in running : WorkerDone(p)
    \/ SyncFinish

Spec == Init /\ [][Next]_vars

\* --------------------------------------------------------- Duplicate Finder
\* Largest threshold tried.
MaxThreshold == 3

\* Byte values the fingerprints of the bounded stores are built from.
ByteSamples == {0, 1, 3}
Fingerprints == [1..HashLen -> ByteSamples]
SampleKeys == {to_string_lossy(P_a), to_string_lossy(P_c), to_string_lossy(P_B)}
SampleStores == UNION {[ks -> Fingerprints] : ks \in SUBSET SampleKeys}

\* (l ^ r).count_ones() of two bytes.
RECURSIVE XorOnes(_, _)
XorOnes(l, r) ==
    IF l = 0 /\ r = 0 THEN 0
    ELSE (IF l % 2 = r % 2 THEN 0 ELSE 1) + XorOnes(l \div 2, r \div 2)

\* ImageHash::dist: Hamming distance, the differing bits summed over the bytes.
RECURSIVE dist(_, _)
dist(h1, h2) ==
    IF Len(h1) = 0 \/ Len(h2) = 0 THEN 0
    ELSE XorOnes(Head(h1), Head(h2)) + dist(Tail(h1), Tail(h2))

\* Faulty variant: distance equal to the threshold counted as a duplicate.
IsDuplicate_Inclusive(h1, h2, t) == dist(h1, h2) <= t

\* hash_1.0.dist(&hash_2.0) < threshold
IsDuplicate(h1, h2, t) == dist(h1, h2) < t

\* self.0.iter().collect(): the entries in one of the orders a HashMap may
\* iterate in.
Orders(S) ==
    {o \in [1..Cardinality(S) -> S] : \A i, j \in 1..Cardinality(S) : o[i] = o[j] => i = j}

\* Faulty variant: combinations with repetition, an entry paired with itself.
RECURSIVE CombinationsFrom_WithSelf(_, _, _)
CombinationsFrom_WithSelf(i, j, n) ==
    IF i > n THEN <<>>
    ELSE IF j > n THEN CombinationsFrom_WithSelf(i + 1, i + 1, n)
    ELSE <<(<<i, j>>)>> \o CombinationsFrom_WithSelf(i, j + 1, n)

\* LargeCombinationIterator::new(&entries, 2): the index pairs i < j in
\* lexicographic order, from <<i, j>> on.
RECURSIVE CombinationsFrom(_, _, _)
CombinationsFrom(i, j, n) ==
    IF i >= n THEN <<>>
    ELSE IF j > n THEN CombinationsFrom(i + 1, i + 2, n)
    ELSE <<(<<i, j>>)>> \o CombinationsFrom(i, j + 1, n)

\* .filter_map(|comb| ...).collect() over the combinations still to come.
RECURSIVE FilterPairs(_, _, _, _)
FilterPairs(st, entries, combs, t) ==
    IF Len(combs) = 0 THEN <<>>
    ELSE LET name_1 == entries[Head(combs)[1]]
             name_2 == entries[Head(combs)[2]]
         IN  (IF IsDuplicate(st[name_1], st[name_2], t)
              THEN <<(<<name_1, name_2>>)>>
              ELSE <<>>) \o FilterPairs(st, entries, Tail(combs), t)

\* find_duplicates.  LargeCombinationIterator::new asserts that the slice has
\* at least as many elements as a combination (2): the call panics on a store
\* of fewer than two entries.
find_duplicates(st, entries, t) ==
    IF Len(entries) < 2
    THEN [outcome |-> "panic", pairs |-> <<>>]
    ELSE [outcome |-> "returned",
          pairs |-> FilterPairs(st, entries, CombinationsFrom(1, 2, Len(entries)), t)]

InitDup ==
    /\ store \in SampleStores
    /\ fs = [p \in Nodes |-> IF "absent" \in AllowedKinds(p)
                              THEN "absent"
                              ELSE CHOOSE k \in AllowedKinds(p) : TRUE]
    /\ root = "dir"
    /\ pc = "idle"
    /\ mode = "flat"
    /\ db_images = {}
    /\ fs_images = {}
    /\ pending = {}
    /\ running = {}
    /\ results = NoResults
    /\ lastResult = "none"
    /\ fsChanged = FALSE
    /\ idem = FALSE
    /\ threshold = 0
    /\ duplicates = <<>>
    /\ dupOutcome = "none"
    /\ dbFile = NoFile
    /\ fileState = "none"
    /\ loaded = NotLoaded
    /\ RunIdle
    /\ GuiIdle

\* hashdb.find_duplicates(t) on the store, in one of its iteration orders.
FindDuplicates(t, entries) ==
    /\ threshold' = t
    /\ duplicates' = find_duplicates(store, entries, t).pairs
    /\ dupOutcome' = find_duplicates(store, entries, t).outcome
    /\ UNCHANGED <<store, syncVars, codecVars, runVars, guiVars>>

NextDup == \E t \in 0..MaxThreshold : \E entries \in Orders(DOMAIN store) : FindDuplicates(t, entries)

SpecDup == InitDup /\ [][NextDup]_vars

\* -------------------------------------------------------- Persistence Codec
\* MessagePack items.
MapHeader(n) == [t |-> "map", v |-> n]
StrItem(x) == [t |-> "str", v |-> x]
BinItem(b) == [t |-> "bin", v |-> b]
IntItem(i) == [t |-> "int", v |-> i]

\* Faulty variant: the fingerprint written as a string item.
serialize_hash_as_str(h) == StrItem(h)

\* impl Serialize for ImageHash: serialize_bytes(self.0.as_bytes()), one bin item.
serialize_hash(h) == BinItem(h)

\* The entries of the map, in the order the HashMap iterates.
RECURSIVE serialize_entries(_, _)
serialize_entries(st, entries) ==
    IF Len(entries) = 0 THEN <<>>
    ELSE <<StrItem(Head(entries)), serialize_hash(st[Head(entries)])>>
             \o serialize_entries(st, Tail(entries))

\* #[derive(Serialize)] on the newtype HashDB(HashMap): the map itself.
serialize_db(st, entries) == <<MapHeader(Len(entries))>> \o serialize_entries(st, entries)

\* ZlibEncoder: a header, the deflated buffer, and the checksum of the buffer
\* (its length stands for Adler-32).
ZlibHeader == [t |-> "zlib", v |-> 0]
Adler(buf) == [t |-> "adler", v |-> Len(buf)]
ZlibEncode(buf) == <<ZlibHeader>> \o buf \o <<Adler(buf)>>

\* ZlibDecoder read to the end of the stream: the buffer, or an io error on a
\* bad header, a cut stream or a wrong checksum.
ZlibDecode(data) ==
    IF /\ Len(data) >= 2
       /\ data[1].t = "zlib"
       /\ data[Len(data)].t = "adler"
       /\ data[Len(data)].v = Len(data) - 2
    THEN [ok |-> TRUE, buf |-> SubSeq(data, 2, Len(data) - 1)]
    ELSE [ok |-> FALSE, buf |-> <<>>]

\* image_hasher::ImageHash::<Box<[u8]>>::from_bytes: the boxed slice has no
\* maximal size, so every byte string is taken as it is, whatever its length.
from_bytes(v) == [ok |-> TRUE, hash |-> v]

\* ImageHashVisitor: only visit_bytes is defined, so anything but a bin item is
\* an invalid type; a bin item goes through from_bytes.
deserialize_hash(item) ==
    IF item.t = "bin" THEN from_bytes(item.v) ELSE [ok |-> FALSE, hash |-> <<>>]

\* The n entries of the map read from the items; an error when the items run
\* out, a key is no string or a value is no image hash.
RECURSIVE deserialize_entries(_, _, _)
deserialize_entries(items, n, acc) ==
    IF n = 0 THEN [ok |-> TRUE, db |-> acc]
    ELSE IF Len(items) < 2 \/ items[1].t # "str" \/ ~deserialize_hash(items[2]).ok
    THEN [ok |-> FALSE, db |-> NoResults]
    ELSE deserialize_entries(
             SubSeq(items, 3, Len(items)), n - 1,
             [k \in (DOMAIN acc) \cup {items[1].v} |->
                 IF k = items[1].v THEN deserialize_hash(items[2]).hash ELSE acc[k]])

\* #[derive(Deserialize)] on HashDB: a map header, then its entries.
deserialize_db(items) ==
    IF Len(items) = 0 \/ items[1].t # "map"
    THEN [ok |-> FALSE, db |-> NoResults]
    ELSE deserialize_entries(Tail(items), items[1].v, NoResults)

\* to_file: the bytes written when nothing fails.
to_file(st, entries) == ZlibEncode(serialize_db(st, entries))

\* from_file: fs::read(file)?, then rmp_serde::from_read(ZlibDecoder)?.
from_file(file) ==
    IF ~file.exists THEN [ok |-> FALSE, err |-> "io", db |-> NoResults]
    ELSE IF ~ZlibDecode(file.data).ok \/ ~deserialize_db(ZlibDecode(file.data).buf).ok
    THEN [ok |-> FALSE, err |-> "decode", db |-> NoResults]
    ELSE [ok |-> TRUE, err |-> "", db |-> deserialize_db(ZlibDecode(file.data).buf).db]

\* Ways a written database file gets damaged on disk.
\*   "cut_stream", "bad_header": the compressed stream is bad;
\*   "cut_entry", "not_a_map", "hash_as_str": the encoding inside is malformed;
\*   "short_hash", "long_hash": the last fingerprint has an unexpected length.
DamageKinds ==
    {"cut_stream", "bad_header", "cut_entry", "not_a_map", "hash_as_str",
     "short_hash", "long_hash"}

Damaged(data, kind) ==
    LET buf == ZlibDecode(data).buf
        n == Len(buf)
        last == buf[n]
    IN  CASE kind = "cut_stream" -> SubSeq(data, 1, Len(data) - 1)
          [] kind = "bad_header" -> <<[t |-> "gzip", v |-> 0]>> \o Tail(data)
          [] kind = "cut_entry" -> ZlibEncode(SubSeq(buf, 1, n - 1))
          [] kind = "not_a_map" -> ZlibEncode(<<IntItem(buf[1].v)>> \o Tail(buf))
          [] kind = "hash_as_str" -> ZlibEncode(SubSeq(buf, 1, n - 1) \o <<StrItem(last.v)>>)
          [] kind = "short_hash" ->
                ZlibEncode(SubSeq(buf, 1, n - 1) \o <<BinItem(Tail(last.v))>>)
          [] OTHER ->
                ZlibEncode(SubSeq(buf, 1, n - 1) \o <<BinItem(last.v \o <<0>>)>>)

InitCodec ==
    /\ store \in SampleStores
    /\ fs = [p \in Nodes |-> IF "absent" \in AllowedKinds(p)
                              THEN "absent"
                              ELSE CHOOSE k \in AllowedKinds(p) : TRUE]
    /\ root = "dir"
    /\ pc = "idle"
    /\ mode = "flat"
    /\ db_images = {}
    /\ fs_images = {}
    /\ pending = {}
    /\ running = {}
    /\ results = NoResults
    /\ lastResult = "none"
    /\ fsChanged = FALSE
    /\ idem = FALSE
    /\ threshold = 0
    /\ duplicates = <<>>
    /\ dupOutcome = "none"
    /\ dbFile = NoFile
    /\ fileState = "none"
    /\ loaded = NotLoaded
    /\ RunIdle
    /\ GuiIdle

\* hashdb.to_file(db_file) returns Ok.
ToFile(entries) ==
    /\ dbFile' = [exists |-> TRUE, data |-> to_file(store, entries)]
    /\ fileState' = "written"
    /\ loaded' = NotLoaded
    /\ UNCHANGED <<store, syncVars, dupVars, runVars, guiVars>>

\* hashdb.to_file(db_file) returns an io error: fs::write has created or
\* emptied the file and written nothing.
ToFileFails ==
    /\ dbFile' = [exists |-> TRUE, data |-> <<>>]
    /\ fileState' = "damaged"
    /\ loaded' = NotLoaded
    /\ UNCHANGED <<store, syncVars, dupVars, runVars, guiVars>>

\* The environment damages the file to_file wrote.
Damage(kind) ==
    /\ fileState = "written"
    /\ kind \in {"cut_stream", "bad_header", "not_a_map"} \/ store # NoResults
    /\ dbFile' = [exists |-> TRUE, data |-> Damaged(dbFile.data, kind)]
    /\ fileState' = "damaged"
    /\ loaded' = NotLoaded
    /\ UNCHANGED <<store, syncVars, dupVars, runVars, guiVars>>

\* HashDB::from_file(db_file).
FromFile ==
    /\ loaded' = from_file(dbFile)
    /\ UNCHANGED <<store, syncVars, dupVars, dbFile, fileState, runVars, guiVars>>

NextCodec ==
    \/ \E entries \in Orders(DOMAIN store) : ToFile(entries)
    \/ ToFileFails
    \/ \E kind \in DamageKinds : Damage(kind)
    \/ FromFile

SpecCodec == InitCodec /\ [][NextCodec]_vars

\* ------------------------------------------------------------ run pipeline
\* Faulty variant: an existing database file is loaded even under --rebuild.
load_db_ignoring_rebuild(a, file) == file.exists

\* db_file.is_file() && !args.rebuild
load_db(a, file) == file.exists /\ ~a.rebuild

\* hashdb.read_dir(path) / hashdb.read_dir_recursive(path) as one call: how it
\* returns, and the store it leaves.
read_dir_call(st, f, rk, m) ==
    IF m = "flat" /\ rk = "err" THEN [result |-> "io", store |-> st]
    ELSE LET fsi == IF m = "flat" THEN scan_flat(f) ELSE scan_rec(f, rk)
             db == DOMAIN st
             res == [p \in to_add(fsi, db) |-> hash_image(f, p)]
         IN  [result |-> IF AnyFailed(res) THEN "image" ELSE "ok",
              store |-> StoreAfterCollect(st, res, db, fsi)]

\* Stores an earlier run can have synced: each key with the fingerprint of a
\* picture its file can hold.
RunStores ==
    {st \in SampleStores :
        \A k \in DOMAIN st :
            \E kind \in AllowedKinds(as_path(k)) \cap ImageKinds : st[k] = PictureHash(kind)}

\* The database file run finds: none, one an earlier run wrote (in one of the
\* iteration orders of its store), or one cut short on disk.
RunDbFiles ==
    {NoFile}
    \cup {[exists |-> TRUE,
           data |-> to_file(st, CHOOSE entries \in Orders(DOMAIN st) : TRUE)] :
             st \in RunStores}
    \cup {[exists |-> TRUE,
           data |-> Damaged(to_file(NoResults, <<>>), "cut_stream")]}

\* The directories run is pointed at: a.png, the link l.png and its target
\* B.PNG come and go, the rest of the universe is as in its initial state.
RunFiles ==
    {[p \in Nodes |->
        CASE p = P_a -> a
          [] p = P_l -> l
          [] p = P_B -> b
          [] p = P_h -> "imgB"
          [] p = P_n -> "imgA"
          [] OTHER -> "absent"] :
        a \in {"absent", "imgA", "corrupt"}, l \in {"absent", "link"},
        b \in {"absent", "imgA"}}

\* run(&args) is entered; "absent": args.path is not a directory.
InitRun ==
    /\ args \in [recursive : BOOLEAN, rebuild : BOOLEAN, no_dump : BOOLEAN,
                 no_update : BOOLEAN, threshold : {0, MaxThreshold}]
    /\ fs \in RunFiles
    /\ root \in RootKinds \cup {"absent"}
    /\ dbFile \in RunDbFiles
    /\ file0 = dbFile
    /\ fileState = "none"
    /\ store = NoResults
    /\ rpc = "start"
    /\ trace = <<>>
    /\ pc = "idle"
    /\ mode = "flat"
    /\ db_images = {}
    /\ fs_images = {}
    /\ pending = {}
    /\ running = {}
    /\ results = NoResults
    /\ lastResult = "none"
    /\ fsChanged = FALSE
    /\ idem = FALSE
    /\ threshold = 0
    /\ duplicates = <<>>
    /\ dupOutcome = "none"
    /\ loaded = NotLoaded
    /\ GuiIdle

\* The directory test and the choice between HashDB::from_file(&db_file)? and
\* HashDB::new().
RunLoad ==
    /\ rpc = "start"
    /\ IF root = "absent"
       THEN /\ rpc' = "exit_err"
            /\ trace' = Append(trace, [step |-> "is_dir", ok |-> FALSE])
            /\ UNCHANGED <<store, loaded>>
       ELSE IF load_db(args, dbFile)
       THEN /\ loaded' = from_file(dbFile)
            /\ trace' = Append(trace, [step |-> "from_file", ok |-> loaded'.ok])
            /\ store' = loaded'.db
            /\ rpc' = IF loaded'.ok THEN "loaded" ELSE "exit_err"
       ELSE /\ store' = NoResults
            /\ trace' = Append(trace, [step |-> "new", ok |-> TRUE])
            /\ rpc' = "loaded"
            /\ UNCHANGED loaded
    /\ UNCHANGED <<syncVars, dupVars, dbFile, fileState, args, file0, guiVars>>

\* Faulty variant: the error of the sync is dropped and the run goes on.
RunSync_IgnoresError ==
    /\ rpc = "loaded"
    /\ IF args.no_update
       THEN UNCHANGED <<store, mode, lastResult, trace>>
       ELSE LET m == IF args.recursive THEN "rec" ELSE "flat"
                r == read_dir_call(store, fs, root, m)
            IN  /\ store' = r.store
                /\ mode' = m
                /\ lastResult' = r.result
                /\ trace' = Append(trace, [step |-> "read_dir", ok |-> r.result = "ok"])
    /\ rpc' = "synced"
    /\ UNCHANGED <<fs, root, pc, syncLocals, fsChanged, idem, dupVars, codecVars,
                   args, file0, guiVars>>

\* if !args.no_update { hashdb.read_dir_recursive(path)? / hashdb.read_dir(path)? }
RunSync ==
    /\ rpc = "loaded"
    /\ IF args.no_update
       THEN rpc' = "synced" /\ UNCHANGED <<store, mode, lastResult, trace>>
       ELSE LET m == IF args.recursive THEN "rec" ELSE "flat"
                r == read_dir_call(store, fs, root, m)
            IN  /\ store' = r.store
                /\ mode' = m
                /\ lastResult' = r.result
                /\ trace' = Append(trace, [step |-> "read_dir", ok |-> r.result = "ok"])
                /\ rpc' = IF r.result = "ok" THEN "synced" ELSE "exit_err"
    /\ UNCHANGED <<fs, root, pc, syncLocals, fsChanged, idem, dupVars, codecVars,
                   args, file0, guiVars>>

\* if !args.no_dump { hashdb.to_file(&db_file)? }
RunDump(entries) ==
    /\ rpc = "synced"
    /\ IF args.no_dump
       THEN UNCHANGED <<dbFile, fileState, trace>>
       ELSE /\ dbFile' = [exists |-> TRUE, data |-> to_file(store, entries)]
            /\ fileState' = "written"
            /\ trace' = Append(trace, [step |-> "to_file", ok |-> TRUE])
    /\ rpc' = "dumped"
    /\ UNCHANGED <<store, syncVars, dupVars, loaded, args, file0, guiVars>>

\* to_file returns an io error: fs::write has created or emptied the file.
RunDumpFails ==
    /\ rpc = "synced"
    /\ ~args.no_dump
    /\ dbFile' = [exists |-> TRUE, data |-> <<>>]
    /\ fileState' = "damaged"
    /\ trace' = Append(trace, [step |-> "to_file", ok |-> FALSE])
    /\ rpc' = "exit_err"
    /\ UNCHANGED <<store, syncVars, dupVars, loaded, args, file0, guiVars>>

\* let duplicates = hashdb.find_duplicates(args.threshold)
RunFind(entries) ==
    /\ rpc = "dumped"
    /\ LET r == find_duplicates(store, entries, args.threshold)
       IN  /\ threshold' = args.threshold
           /\ duplicates' = r.pairs
           /\ dupOutcome' = r.outcome
           /\ trace' = Append(trace, [step |-> "find_duplicates",
                                      ok |-> r.outcome = "returned"])
           /\ rpc' = IF r.outcome = "returned" THEN "found" ELSE "panic"
    /\ UNCHANGED <<store, syncVars, codecVars, args, file0, guiVars>>

\* GUI::build(duplicates)? and gui.run(): the list is handed to the review
\* layer.
RunGui ==
    /\ rpc = "found"
    /\ gpc' = "built"
    /\ idx' = 0
    /\ trace' = Append(trace, [step |-> "gui", ok |-> TRUE])
    /\ rpc' = "review"
    /\ UNCHANGED <<store, syncVars, dupVars, codecVars, args, file0, onDisk, shown,
                   presses, gerr>>

NextRun ==
    \/ RunLoad
    \/ RunSync
    \/ \E entries \in Orders(DOMAIN store) : RunDump(entries)
    \/ RunDumpFails
    \/ \E entries \in Orders(DOMAIN store) : RunFind(entries)
    \/ RunGui

SpecRun == InitRun /\ [][NextRun]_vars

\* ------------------------------------------------------------ Review Layer
\* enum Message: what the three buttons emit.
Message == {"LeftPressed", "CenterPressed", "RightPressed"}

\* Faulty variant: each button trashes the picture on its own side.
trash_target_same_side(msg, dup) ==
    CASE msg = "LeftPressed" -> {dup[1]}
      [] msg = "RightPressed" -> {dup[2]}
      [] OTHER -> {}

\* The match on the message: the paths handed to trash::delete.  dup is
\* (dup.0, dup.1), shown left and right.
trash_target(msg, dup) ==
    CASE msg = "LeftPressed" -> {dup[2]}
      [] msg = "RightPressed" -> {dup[1]}
      [] OTHER -> {}

\* self.duplicates.get(i).is_some(), i counted from 0.
get_some(dups, i) == i < Len(dups)

\* fs::exists(&img_1)? && fs::exists(&img_2)? for the pair at i.
both_exist(dups, i, disk) == dups[i + 1][1] \in disk /\ dups[i + 1][2] \in disk

\* The get at the incremented index and the while loop after it: the first
\* index from i on whose two paths exist, the length of the list when the get
\* returns None first.
RECURSIVE skip_missing(_, _, _)
skip_missing(dups, i, disk) ==
    IF ~get_some(dups, i) THEN i
    ELSE IF both_exist(dups, i, disk) THEN i
    ELSE skip_missing(dups, i + 1, disk)

\* display_image on both frames: image::image_dimensions fails on a path that
\* is not there.
display_images(dups, i, disk) == both_exist(dups, i, disk)

\* GUI::build(duplicates) on a list find_duplicates returned, idx: 0.  The
\* GUI holds the list alone, not the store it was computed from; the paths of
\* the list need not be on disk any more.
InitGui ==
    /\ store = NoResults
    /\ threshold = 0
    /\ \E st \in {x \in SampleStores : Cardinality(DOMAIN x) >= 2} :
       \E entries \in Orders(DOMAIN st) :
       \E t \in 0..MaxThreshold :
           duplicates = find_duplicates(st, entries, t).pairs
    /\ dupOutcome = "returned"
    /\ fs = [p \in Nodes |-> IF "absent" \in AllowedKinds(p)
                              THEN "absent"
                              ELSE CHOOSE k \in AllowedKinds(p) : TRUE]
    /\ root = "dir"
    /\ pc = "idle"
    /\ mode = "flat"
    /\ db_images = {}
    /\ fs_images = {}
    /\ pending = {}
    /\ running = {}
    /\ results = NoResults
    /\ lastResult = "none"
    /\ fsChanged = FALSE
    /\ idem = FALSE
    /\ dbFile = NoFile
    /\ fileState = "none"
    /\ loaded = NotLoaded
    /\ RunIdle
    /\ idx = 0
    /\ onDisk \in SUBSET SampleKeys
    /\ shown = <<>>
    /\ presses = <<>>
    /\ gpc = "built"
    /\ gerr = "none"

\* GUI::run up to the event loop: the first pair is fetched and displayed.
GuiRunStart ==
    /\ gpc = "built"
    /\ IF ~get_some(duplicates, idx)
       THEN gpc' = "done" /\ UNCHANGED <<shown, gerr>>
       ELSE IF display_images(duplicates, idx, onDisk)
       THEN /\ gpc' = "waiting"
            /\ shown' = Append(shown, [i |-> idx, checked |-> FALSE])
            /\ UNCHANGED gerr
       ELSE gpc' = "failed" /\ gerr' = "display" /\ UNCHANGED shown
    /\ UNCHANGED <<idx, onDisk, presses, store, syncVars, dupVars, codecVars, runVars>>

\* One turn of the event loop on a message: the trash, the next index, the
\* skip of the pairs with a missing path, the display.  trash::delete fails on
\* a path that is not there.
Press(msg) ==
    /\ gpc = "waiting"
    /\ LET target == trash_target(msg, duplicates[idx + 1])
           disk == onDisk \ target
           next == skip_missing(duplicates, idx + 1, disk)
       IN  IF ~(target \subseteq onDisk)
           THEN /\ gpc' = "failed"
                /\ gerr' = "trash"
                /\ presses' = Append(presses,
                       [i |-> idx, disp |-> shown[Len(shown)].i, msg |-> msg,
                        trashed |-> {}, ok |-> FALSE])
                /\ UNCHANGED <<idx, onDisk, shown>>
           ELSE /\ onDisk' = disk
                /\ presses' = Append(presses,
                       [i |-> idx, disp |-> shown[Len(shown)].i, msg |-> msg,
                        trashed |-> target, ok |-> TRUE])
                /\ idx' = next
                /\ IF get_some(duplicates, next)
                   THEN /\ shown' = Append(shown, [i |-> next, checked |-> TRUE])
                        /\ UNCHANGED gpc
                   ELSE gpc' = "done" /\ UNCHANGED shown
                /\ UNCHANGED gerr
    /\ UNCHANGED <<store, syncVars, dupVars, codecVars, runVars>>

\* app.wait() returns false: the window was closed.
WindowClosed ==
    /\ gpc = "waiting"
    /\ gpc' = "done"
    /\ UNCHANGED <<idx, onDisk, shown, presses, gerr, store, syncVars, dupVars,
                   codecVars, runVars>>

\* The environment removes a picture while the window is open.
FileVanishes(p) ==
    /\ gpc = "waiting"
    /\ p \in onDisk
    /\ onDisk' = onDisk \ {p}
    /\ UNCHANGED <<idx, shown, presses, gpc, gerr, store, syncVars, dupVars,
                   codecVars, runVars>>

NextGui ==
    \/ GuiRunStart
    \/ \E msg \in Message : Press(msg)
    \/ WindowClosed
    \/ \E p \in SampleKeys : FileVanishes(p)

SpecGui == InitGui /\ [][NextGui]_vars

\* ======================================================= claims on Spec
\* The Scanner of the specification: canonical paths of the regular files whose
\* entry passes the Path Classifier, one level or the whole subtree; entries
\* whose listing or canonicalization fails are left out.
InScope(p, m) == m = "rec" \/ Parent(p) = RootCanon

ScannerOutput(f, rk, m) ==
    IF rk = "err" THEN {}
    ELSE {to_string_lossy(c) :
             c \in UNION {Canonicalize(f, EntryPath(p)) :
                             p \in {q \in Nodes : /\ InScope(q, m)
                                                  /\ Visible(f, q)
                                                  /\ f[q] # "err"
                                                  /\ has_image_suffix(EntryPath(q))
                                                  /\ is_file(f, EntryPath(q))}}}

\* The last sync call returned Ok and nothing has changed on disk since.
SyncedOk == pc = "idle" /\ lastResult = "ok" /\ ~fsChanged

\* C1: after a successful sync the key set of the store is exactly the
\* Scanner's output for the root: canonical paths of existing regular files
\* with an allowlisted name, one entry each, nothing else.
C1_KeysAreScannerOutput == SyncedOk => DOMAIN store = ScannerOutput(fs, root, mode)

\* C2: a sync in which a fingerprinting attempt failed returns the error and
\* leaves the store exactly as it was before the call.
C2_FailedSyncLeavesStore ==
    [][(pc = "hashing" /\ pc' = "idle" /\ AnyFailed(results))
          => (lastResult' = "image" /\ store' = store)]_vars

\* A failed sync has returned, although one new file of the batch hashes fine
\* and one stale entry was due for removal.
C2_Witness ==
    /\ pc = "idle" /\ lastResult = "image" /\ ~fsChanged /\ mode = "rec"
    /\ \E s \in scan_rec(fs, root) \ DOMAIN store : hash_image(fs, s).ok
    /\ \E s \in scan_rec(fs, root) \ DOMAIN store : ~hash_image(fs, s).ok
    /\ (DOMAIN store) \ scan_rec(fs, root) # {}

\* C3: a sync that follows a successful sync of the same mode, with no change
\* of the file system in between, succeeds and leaves the store identical.
C3_SyncIdempotent ==
    /\ [](idem => lastResult # "io")
    /\ [][(pc = "hashing" /\ pc' = "idle" /\ idem)
             => (lastResult' = "ok" /\ store' = store)]_vars

\* The second of two back-to-back syncs has returned, on a non-empty store
\* that holds the target of a link.
C3_Witness ==
    /\ SyncedOk /\ idem
    /\ to_string_lossy(P_B) \in DOMAIN store
    /\ fs[P_l] = "link"
    /\ Cardinality(DOMAIN store) >= 2

\* C13: during a sync the workers never change the store.  Every insertion
\* and removal happens in the step of the calling thread that follows the
\* collect, when every dispatched path has been handed out and no worker is
\* still running.
C13_StoreChangedOnlyAfterCollect ==
    [][(store' # store)
          => (/\ pc = "hashing" /\ pc' = "idle"
              /\ running = {} /\ pending = {}
              /\ DOMAIN results = to_add(fs_images, db_images)
              /\ ~AnyFailed(results))]_vars

\* The pool has returned two or more fingerprints, none failed, no worker is
\* running, and a stale key waits for removal: the calling thread is about to
\* change the store.
C13_Witness ==
    /\ pc = "hashing" /\ running = {} /\ pending = {}
    /\ Cardinality(DOMAIN results) >= 2
    /\ ~AnyFailed(results)
    /\ db_images \ fs_images # {}

\* C14: a sync fingerprints only the paths that are present and not yet
\* known; over an unchanged directory it fingerprints nothing; the stored
\* fingerprint of a path known before and still present is left as it was.
C14_OnlyNewPathsFingerprinted ==
    /\ [](pc = "hashing"
            => (pending \cup running \cup DOMAIN results) \subseteq (fs_images \ db_images))
    /\ [](pc = "hashing" /\ idem
            => (pending \cup running \cup DOMAIN results) = {})
    /\ [][(pc = "hashing" /\ pc' = "idle")
             => \A k \in db_images \cap fs_images :
                    k \in DOMAIN store' /\ store'[k] = store[k]]_vars

\* A successful sync has added a new key and has kept, for a known path whose
\* picture has changed on disk since, the fingerprint of the old picture.
C14_Witness ==
    /\ SyncedOk /\ ~idem
    /\ \E k \in DOMAIN store :
           hash_image(fs, k).ok /\ store[k] # hash_image(fs, k).hash
    /\ \E k \in DOMAIN store :
           hash_image(fs, k).ok /\ store[k] = hash_image(fs, k).hash

\* C8: the scan output is exactly the canonical paths of the regular files
\* that pass the Path Classifier (immediate entries when flat, subtree when
\* recursive); what is not a regular file is never in it.
C8_ScanIsScannerOutput == pc = "hashing" => fs_images = ScannerOutput(fs, root, mode)

\* C9 as stated: the classifier accepts exactly the seven lower-case
\* extensions, and a path it rejects never becomes a key of the store.
C9_RejectedNeverKey == \A k \in DOMAIN store : has_image_suffix(as_path(k))

\* Names the classifier must accept and names it must reject.
AcceptedSamples ==
    { <<Dot, <<"x", "."  >> \o s>> : s \in SUFFIXES } \cup {EntryPath(P_a), EntryPath(P_c)}
RejectedSamples ==
    { EntryPath(P_B), EntryPath(P_t), EntryPath(P_h), EntryPath(P_n),
      <<Dot, <<"x", ".", "J", "p", "g">>>>, <<Dot, <<"x", ".", "p", "n", "g", ".", "t", "x", "t">>>>,
      <<Dot, <<"p", "n", "g">>>>, <<Dot, <<"x", ".">>>>, <<Dot, <<"x", ".", "p", "n">>>> }

\* C9 amended: the classifier accepts exactly the seven lower-case extensions;
\* an entry it rejects is never scanned, and a key without an allowlisted
\* extension can only be the canonical target of a symbolic link whose own
\* name the classifier accepts.
C9_RejectedOnlyViaLink ==
    /\ \A e \in AcceptedSamples : has_image_suffix(e)
    /\ \A e \in RejectedSamples : ~has_image_suffix(e)
    /\ pc = "hashing" =>
          \A s \in fs_images :
              \E p \in Nodes :
                  /\ has_image_suffix(EntryPath(p))
                  /\ Canonicalize(fs, EntryPath(p)) = {as_path(s)}
                  /\ (~has_image_suffix(as_path(s)) => fs[p] = "link")
    /\ \A k \in DOMAIN store :
          \/ has_image_suffix(as_path(k))
          \/ \E p \in Nodes : /\ "link" \in AllowedKinds(p)
                              /\ has_image_suffix(EntryPath(p))
                              /\ LinkTarget(p) = as_path(k)

\* A sync has stored the upper-case file through the link, next to rejected
\* files that stayed out.
C9_Witness ==
    /\ SyncedOk
    /\ to_string_lossy(P_B) \in DOMAIN store
    /\ fs[P_t] = "imgA"
    /\ to_string_lossy(P_t) \notin DOMAIN store
    /\ to_string_lossy(P_h) \notin DOMAIN store

\* Entries whose listing or canonicalization fails.
Unlistable(f, p) == Visible(f, p) /\ (f[p] = "err" \/ Canonicalize(f, EntryPath(p)) = {})

\* C10: an entry whose listing or canonicalization fails never fails the sync
\* and never aborts the scan: it is left out, the other entries are scanned,
\* and a sync fails only on an unreadable root (flat) or an undecodable file.
C10_EntryErrorsSkipped ==
    /\ pc = "hashing" =>
          /\ \A p \in Nodes : Unlistable(fs, p) => to_string_lossy(p) \notin fs_images
          /\ ScannerOutput(fs, root, mode) \subseteq fs_images
    /\ (pc = "idle" /\ ~fsChanged /\ lastResult = "io") => (mode = "flat" /\ root = "err")
    /\ (pc = "idle" /\ ~fsChanged /\ lastResult = "image") =>
          \E p \in Nodes : Visible(fs, p) /\ fs[p] \in {"corrupt", "dir"}

\* A recursive sync succeeded with an unreadable entry in the subdirectory and
\* a dangling link at the top, and stored the healthy files around them.
C10_Witness ==
    /\ SyncedOk /\ mode = "rec"
    /\ fs[P_d] = "dir" /\ fs[P_c] = "err"
    /\ fs[P_l] = "link" /\ fs[P_B] = "absent"
    /\ DOMAIN store = {to_string_lossy(P_a)}

\* ==================================================== claims on SpecDup
\* How often the unordered pair {p, q} is in the list, in either order.
TimesReported(p, q) ==
    Cardinality({i \in 1..Len(duplicates) : duplicates[i] \in {<<p, q>>, <<q, p>>}})

\* C4: in the list find_duplicates returns, every unordered pair of distinct
\* keys is there exactly once when its distance is below the threshold and not
\* at all otherwise; no pair has equal components.
C4_EachClosePairOnce ==
    dupOutcome = "returned" =>
        /\ \A p, q \in DOMAIN store :
               p # q => TimesReported(p, q) =
                           (IF dist(store[p], store[q]) < threshold THEN 1 ELSE 0)
        /\ \A i \in 1..Len(duplicates) :
               /\ duplicates[i][1] # duplicates[i][2]
               /\ duplicates[i][1] \in DOMAIN store
               /\ duplicates[i][2] \in DOMAIN store

\* Three entries, of which two pairs are reported and the third is not.
C4_Witness ==
    /\ dupOutcome = "returned"
    /\ Cardinality(DOMAIN store) = 3
    /\ Len(duplicates) = 2
    /\ threshold = 2

\* C5: threshold 0 reports nothing, and a pair of distinct entries with
\* bit-identical fingerprints is reported exactly when the threshold is >= 1.
C5_ThresholdZeroEmpty ==
    dupOutcome = "returned" =>
        /\ threshold = 0 => duplicates = <<>>
        /\ \A p, q \in DOMAIN store :
               (p # q /\ store[p] = store[q]) =>
                   (TimesReported(p, q) >= 1 <=> threshold >= 1)

\* Threshold 0 on a store with two bit-identical fingerprints.
C5_Witness ==
    /\ dupOutcome = "returned"
    /\ threshold = 0
    /\ \E p, q \in DOMAIN store : p # q /\ store[p] = store[q]
    /\ duplicates = <<>>

\* C15: on a store of fewer than two entries find_duplicates completes
\* normally and returns an empty list, whatever the threshold.
C15_SmallStoreReturnsEmpty ==
    (dupOutcome # "none" /\ Cardinality(DOMAIN store) < 2)
        => (dupOutcome = "returned" /\ duplicates = <<>>)

\* =================================================== claims on SpecGui
\* C11: every pair displayed in the review loop, the first one included, had
\* both paths checked for existence right before its display, and a pair with
\* a missing path is skipped instead of being handed to the display.
C11_PairsCheckedBeforeDisplay ==
    /\ \A n \in 1..Len(shown) : shown[n].checked
    /\ gerr # "display"

\* C17: the pair index only grows, pairs are displayed at most once and in
\* list order; Keep left trashes exactly the right path, Keep right exactly
\* the left path, Keep both nothing; what is trashed belongs to the pair on
\* display; the loop is over once the index has passed the end of the list.
C17_ReviewInListOrder ==
    /\ [][idx' >= idx]_vars
    /\ [](\A m, n \in 1..Len(shown) : m < n => shown[m].i < shown[n].i)
    /\ [](\A k \in 1..Len(presses) :
            LET e == presses[k]
                dup == duplicates[e.i + 1]
            IN  /\ e.i = e.disp
                /\ e.trashed \subseteq {dup[1], dup[2]}
                /\ e.ok /\ e.msg = "LeftPressed" => e.trashed = {dup[2]}
                /\ e.ok /\ e.msg = "RightPressed" => e.trashed = {dup[1]}
                /\ e.msg = "CenterPressed" => e.ok /\ e.trashed = {}
                /\ ~e.ok => e.trashed = {})
    /\ [][\A p \in onDisk \ onDisk' :
             \/ gpc' = gpc /\ presses' = presses
             \/ presses' # presses /\ presses'[Len(presses')].trashed = {p}]_vars
    /\ [](gpc = "waiting" => (idx < Len(duplicates) /\ shown # <<>>
                               /\ shown[Len(shown)].i = idx))
    /\ [](idx <= Len(duplicates))
    /\ [](idx = Len(duplicates) /\ gpc # "built" => gpc = "done")

\* A list of three pairs reviewed to its end: Keep left on the first pair, the
\* pair that lost a picture skipped, Keep right on the last one displayed.
C17_Witness ==
    /\ gpc = "done"
    /\ Len(duplicates) = 3 /\ idx = 3
    /\ Len(shown) = 2
    /\ Len(presses) = 2
    /\ presses[1].msg = "LeftPressed" /\ presses[1].ok
    /\ presses[2].msg = "RightPressed" /\ presses[2].ok

\* =================================================== claims on SpecRun
\* The call was made during this run.
Called(step) == \E n \in 1..Len(trace) : trace[n].step = step

\* Order of the stages of the pipeline.
StageOf(step) ==
    CASE step \in {"is_dir", "from_file", "new"} -> 1
      [] step = "read_dir" -> 2
      [] step = "to_file" -> 3
      [] step = "find_duplicates" -> 4
      [] OTHER -> 5

\* The run has got past the load.
PastLoad == rpc \in {"loaded", "synced", "dumped", "found", "review", "panic"}

\* C12: with rebuild the store given to the sync starts empty even if the
\* database file exists; with no_update no sync runs and the store persisted
\* and searched is the loaded (or empty) one; with no_dump the database file
\* is never written; the stages that happen happen in the order load, sync,
\* persist, duplicate discovery, review.
C12_FlagsHonoured ==
    /\ args.rebuild => (~Called("from_file") /\ (rpc = "loaded" => store = NoResults))
    /\ rpc = "loaded" =>
          store = (IF file0.exists /\ ~args.rebuild THEN from_file(file0).db ELSE NoResults)
    /\ args.no_update =>
          /\ ~Called("read_dir")
          /\ PastLoad =>
                store = (IF file0.exists /\ ~args.rebuild THEN from_file(file0).db
                         ELSE NoResults)
    /\ (~args.no_update /\ rpc \in {"synced", "dumped", "found", "review", "panic"})
          => Called("read_dir")
    /\ args.no_dump => (dbFile = file0 /\ ~Called("to_file"))
    /\ (~args.no_dump /\ rpc \in {"dumped", "found", "review", "panic"})
          => (Called("to_file") /\ from_file(dbFile).ok /\ from_file(dbFile).db = store)
    /\ \A m, n \in 1..Len(trace) : m < n => StageOf(trace[m].step) < StageOf(trace[n].step)

\* A run with --rebuild over an existing database file of other content went
\* through sync, persist and discovery, and has reached the review layer.
C12_Witness ==
    /\ rpc = "review"
    /\ args.rebuild /\ ~args.no_dump /\ ~args.no_update
    /\ file0.exists /\ from_file(file0).ok
    /\ from_file(file0).db # store
    /\ dbFile # file0
    /\ Len(trace) = 5

\* C16: when the load of the database file or the sync fails, the run ends
\* with the error before the persist step: the database file is as it was, and
\* neither the duplicate discovery nor the review layer has been started.
C16_FailureBeforePersist ==
    (\E n \in 1..Len(trace) : trace[n].step \in {"from_file", "read_dir"} /\ ~trace[n].ok)
        => /\ rpc = "exit_err"
           /\ ~trace[Len(trace)].ok
           /\ dbFile = file0
           /\ ~Called("to_file") /\ ~Called("find_duplicates") /\ ~Called("gui")
           /\ dupOutcome = "none" /\ gpc = "none"

\* A run whose load succeeded on a non-empty database, without --no-dump, has
\* ended on a failed sync.
C16_Witness ==
    /\ rpc = "exit_err"
    /\ Called("from_file") /\ store # NoResults
    /\ Called("read_dir") /\ lastResult = "image"
    /\ ~args.no_dump

\* ================================================== claims on SpecCodec
\* from_file was called on the file as it is now.
LoadedNow == loaded.err # "none"

\* C6: reading back the file to_file wrote succeeds and yields a store equal
\* to the one written: same keys, same fingerprint bytes.
C6_RoundTrip == (fileState = "written" /\ LoadedNow) => (loaded.ok /\ loaded.db = store)

\* A store of three entries has been written and read back.
C6_Witness ==
    /\ fileState = "written" /\ LoadedNow
    /\ Cardinality(DOMAIN store) = 3
    /\ \E p, q \in DOMAIN store : store[p] # store[q]

\* C7: from_file on a file with a bad compressed stream, a malformed encoding
\* or a fingerprint of unexpected length returns a decode error and no store.
C7_DamagedFileFailsToLoad ==
    (fileState = "damaged" /\ LoadedNow) => (~loaded.ok /\ loaded.err = "decode")

====
